---- MODULE Spec2Model ----
(***************************************************************************)
(* A model of the Stay userscript manager (GlacierEQ/stay).                *)
(*                                                                         *)
(*   SpecMatch  url:matchesPattern: as a pure function of (url, pattern)   *)
(*   Spec       the ScriptManager store, one action per public method      *)
(*   SpecConc   two threads calling save/remove on the shared singleton,   *)
(*              one step per statement of ScriptManager.m                  *)
(*   SpecApi    the backend's script routes, one action per request        *)
(*   SpecApiConc  two request handlers, one step per database operation    *)
(*   SpecRead   the routes that read scripts, beside create/update/delete  *)
(*   SpecClient the sync client's StayAPI calls against the script routes  *)
(*   SpecReviewConc  two overlapping handlers of POST /:id/review          *)
(*   SpecOwnConc  overlapping POST / and DELETE /:id with User.scripts     *)
(*   SpecAuth   the auth routes over the User model, one request at a time *)
(*   SpecAuthConc  overlapping POST /register and PUT /me                  *)
(*   SpecSync   the sync client userscript: sync() calls and their answers *)
(*   SpecBridge the capability gate in front of the host operations        *)
(*   SpecDispatch  one page load: select with scriptsForURL:, run in order *)
(*                                                                         *)
(* The capability gate and the dispatcher are not among the sources; they  *)
(* are modelled as the specification describes them, on top of the modelled*)
(* code (the grants the example scripts declare, scriptsForURL:).          *)
(*                                                                         *)
(* Strings that the code inspects (patterns, URLs, version strings) are    *)
(* sequences of one-character strings.  Strings the code treats as opaque  *)
(* (name, description, sourceCode) are atoms with a declared length.       *)
(***************************************************************************)
EXTENDS Integers, Sequences, FiniteSets, TLC

VARIABLES
    mPattern,        \* SpecMatch: the pattern argument of url:matchesPattern:
    mUrl,            \* SpecMatch: the urlString argument
    mResult,         \* SpecMatch: "none" before the call, then "YES" or "NO"
    scripts,         \* self.scripts        : id -> metadata dictionary
    scriptSources,   \* self.scriptSources  : id -> sourceCode
    storedMetadata,  \* NSUserDefaults "StayScriptsMetadata" (absent until first written)
    storedSources,   \* NSUserDefaults "StayScriptsSources"  (absent until first written)
    now,             \* the clock read by [NSDate date]
    last,            \* the last completed call: its name and what it returned
    pc,              \* SpecConc: per thread, the statement it is about to execute
    job,             \* SpecConc: per thread, the arguments and locals of its call
    scriptCollection,\* backend: the Script collection, indexed by _id
    request,         \* backend: per request handler, where it waits and its locals
    userScripts,     \* backend: per user, the scripts array of the User document and its __v
    accounts,        \* backend: the User collection as the auth routes see it, by _id
    gmStore,         \* sync client: the values behind GM_getValue / GM_setValue
    syncPage,        \* sync client: API_TOKEN of the loaded page, and its timer
    inFlight,        \* sync client: the sync() calls awaiting the remote list
    effects,         \* bridge: the host operations performed for scripts
    dispatch         \* dispatcher: the page load being served

matchVars == <<mPattern, mUrl, mResult>>
storeVars == <<scripts, scriptSources, storedMetadata, storedSources>>
concVars  == <<pc, job>>
apiVars   == <<scriptCollection, request, userScripts, accounts>>
syncVars  == <<gmStore, syncPage, inFlight>>
pageVars  == <<effects, dispatch>>
outerVars == <<apiVars, syncVars, pageVars>>
vars == <<mPattern, mUrl, mResult, scripts, scriptSources, storedMetadata,
          storedSources, now, last, pc, job, scriptCollection, request,
          userScripts, accounts, gmStore, syncPage, inFlight, effects, dispatch>>

\* ------------------------------------------------------------------------
\* Bounds
\* ------------------------------------------------------------------------
MaxPatternLen == 4
MaxUrlLen == 3
MaxTime == 2
MaxHistory == 2
MaxInFlight == 2

\* ------------------------------------------------------------------------
\* Strings as sequences of characters
\* ------------------------------------------------------------------------
Str(n, A) == UNION {[1..k -> A] : k \in 0..n}

\* Simple case folding, as NSRegularExpressionCaseInsensitive and
\* lowercaseString apply it to the letters that occur in the model.
UpperCase == <<"A", "B", "C", "D", "E", "F", "G", "H", "I", "J", "K", "L", "M",
               "N", "O", "P", "Q", "R", "S", "T", "U", "V", "W", "X", "Y", "Z">>
LowerCase == <<"a", "b", "c", "d", "e", "f", "g", "h", "i", "j", "k", "l", "m",
               "n", "o", "p", "q", "r", "s", "t", "u", "v", "w", "x", "y", "z">>

FoldChar(c) ==
    IF \E i \in 1..Len(UpperCase) : UpperCase[i] = c
    THEN LowerCase[CHOOSE i \in 1..Len(UpperCase) : UpperCase[i] = c]
    ELSE c

lowercaseString(s) == [i \in 1..Len(s) |-> FoldChar(s[i])]

\* ------------------------------------------------------------------------
\* url:matchesPattern:  (ScriptManager.m 126-144)
\* ------------------------------------------------------------------------
EscapeNothingButStar == {"*"}

\* The characters +[NSRegularExpression escapedPatternForString:] quotes.
PatternMetaChars ==
    {"*", "?", "+", "[", "(", ")", "{", "}", "^", "$", "|", "\\", ".", "/"}

RECURSIVE escapedPatternForString(_)
escapedPatternForString(p) ==
    IF p = <<>> THEN <<>>
    ELSE (IF Head(p) \in PatternMetaChars THEN <<"\\", Head(p)>> ELSE <<Head(p)>>)
         \o escapedPatternForString(Tail(p))

\* -[NSString stringByReplacingOccurrencesOfString:withString:], scanning
\* left to right over non-overlapping occurrences.
RECURSIVE stringByReplacingOccurrences(_, _, _)
stringByReplacingOccurrences(s, target, repl) ==
    IF Len(s) < Len(target) THEN s
    ELSE IF SubSeq(s, 1, Len(target)) = target
         THEN repl \o stringByReplacingOccurrences(
                         SubSeq(s, Len(target) + 1, Len(s)), target, repl)
         ELSE <<Head(s)>> \o stringByReplacingOccurrences(Tail(s), target, repl)

\* Lines 129-130: the regular expression text built from a wildcard pattern.
RegexPatternFor(pattern) ==
    stringByReplacingOccurrences(escapedPatternForString(pattern),
                                 <<"\\", "*">>, <<".", "*">>)

\* The regular expression as the engine reads it: a sequence of atoms, each a
\* quoted or plain literal or the dot, optionally starred.
RECURSIVE ParseRegex(_)
ParseRegex(r) ==
    IF r = <<>> THEN <<>>
    ELSE LET quoted == Head(r) = "\\" /\ Len(r) >= 2
             n      == IF quoted THEN 2 ELSE 1
             atom   == IF quoted THEN [kind |-> "lit", ch |-> r[2]]
                       ELSE IF Head(r) = "." THEN [kind |-> "any", ch |-> "."]
                       ELSE [kind |-> "lit", ch |-> Head(r)]
             star   == Len(r) > n /\ r[n + 1] = "*"
             rest   == SubSeq(r, n + (IF star THEN 2 ELSE 1), Len(r))
         IN  <<[kind |-> atom.kind, ch |-> atom.ch, star |-> star]>>
             \o ParseRegex(rest)

\* A compiler that accepts every pattern.
CompilesAnything(r) == FALSE

\* regularExpressionWithPattern:options:error: sets an error for text that is
\* no regular expression.  Every metacharacter has been quoted, so the only
\* such text a wildcard pattern produces is the empty one.
RegexCompileError(r) == r = <<>>

LineTerminators == {"\n", "\r"}

\* One atom against one character under NSRegularExpressionCaseInsensitive
\* (line 134).
AtomMatches(atom, c) ==
    \/ atom.kind = "any" /\ c \notin LineTerminators
    \/ atom.kind = "lit" /\ FoldChar(atom.ch) = FoldChar(c)

\* The positions of s at which a match of atoms[k..] can end, when the atoms
\* before k have matched up to one of the positions in from.
RECURSIVE MatchEnds(_, _, _, _)
MatchEnds(atoms, k, s, from) ==
    IF k > Len(atoms) THEN from
    ELSE LET a == atoms[k]
             next ==
               IF a.star
               THEN {j \in 0..Len(s) :
                       \E i \in from :
                          i <= j /\ \A x \in (i + 1)..j : AtomMatches(a, s[x])}
               ELSE {i + 1 : i \in {x \in from : x < Len(s)
                                               /\ AtomMatches(a, s[x + 1])}}
         IN  MatchEnds(atoms, k + 1, s, next)

\* numberOfMatchesInString:options:range: over the whole string (lines
\* 141-142): a match may start at any position of the string.
numberOfMatchesIsPositive(r, s) ==
    MatchEnds(ParseRegex(r), 1, s, 0..Len(s)) # {}

urlMatchesPattern(urlString, pattern) ==
    LET regexPattern == RegexPatternFor(pattern)
    IN  IF RegexCompileError(regexPattern) THEN FALSE
        ELSE numberOfMatchesIsPositive(regexPattern, urlString)

\* The example pattern and URLs of the specification (section 8); the
\* pattern is the one the header documents for the domain argument.
ExamplePattern ==
    <<"*", ":", "/", "/", "*", ".", "e", "x", "a", "m", "p", "l", "e", ".",
      "c", "o", "m", "/", "*">>
ExampleApiUrl ==
    <<"h", "t", "t", "p", "s", ":", "/", "/", "a", "p", "i", ".", "e", "x",
      "a", "m", "p", "l", "e", ".", "c", "o", "m", "/", "p", "a", "t", "h",
      "?", "x", "=", "1">>
ExampleOrgUrl ==
    <<"h", "t", "t", "p", "s", ":", "/", "/", "e", "x", "a", "m", "p", "l",
      "e", ".", "o", "r", "g", "/">>

\* ------------------------------------------------------------------------
\* The script store: data
\* ------------------------------------------------------------------------
ScriptIds == {"s1", "s2"}
Threads == {"t1", "t2"}

\* Opaque text: what it says and how many characters it has.
Text(t, n) == [text |-> t, len |-> n]

\* Field limits and the version format of a script record.
NameMaxLen == 200
DescriptionMaxLen == 2000
SourceCodeMaxLen == 500000

IsDigit(c) == c \in {"0", "1", "2", "3", "4", "5", "6", "7", "8", "9"}

\* /^\d+\.\d+\.\d+$/
VersionWellFormed(v) ==
    \E i, j \in 1..Len(v) :
        /\ 1 < i /\ i + 1 < j /\ j < Len(v)
        /\ v[i] = "." /\ v[j] = "."
        /\ \A k \in (1..Len(v)) \ {i, j} : IsDigit(v[k])

\* The URLs and the exclude rule of the specification's include/exclude
\* example (section 8) and of the authoring guide (@exclude).
ExampleExclude ==
    <<"*", ":", "/", "/", "*", ".", "e", "x", "a", "m", "p", "l", "e", ".",
      "c", "o", "m", "/", "a", "d", "m", "i", "n", "/", "*">>
ExampleHomeUrl ==
    <<"h", "t", "t", "p", "s", ":", "/", "/", "x", ".", "e", "x", "a", "m",
      "p", "l", "e", ".", "c", "o", "m", "/">>
ExampleAdminUrl ==
    <<"h", "t", "t", "p", "s", ":", "/", "/", "x", ".", "e", "x", "a", "m",
      "p", "l", "e", ".", "c", "o", "m", "/", "a", "d", "m", "i", "n", "/",
      "y">>

\* A userscript as its author writes it: the arguments save takes, and the
\* @exclude rules of its header, for which save has no argument.
GreeterScript ==
    [name |-> Text("Greeter", 7), description |-> Text("Says hello", 10),
     sourceCode |-> Text("greeter.js", 120), version |-> <<"1", ".", "0", ".", "0">>,
     domain |-> ExamplePattern, exclude |-> {ExampleExclude}]
OrgScript ==
    [name |-> Text("Org", 3), description |-> Text("For example.org", 15),
     sourceCode |-> Text("org.js", 80), version |-> <<"1", ".", "2", ".", "0">>,
     domain |-> ExampleOrgUrl, exclude |-> {}]
DraftScript ==
    [name |-> Text("Draft", 201), description |-> Text("Work in progress", 16),
     sourceCode |-> Text("draft.js", 40), version |-> <<"v", "2">>,
     domain |-> <<"*">>, exclude |-> {}]
NoDomainScript ==
    [name |-> Text("Nowhere", 7), description |-> Text("No pattern", 10),
     sourceCode |-> Text("nowhere.js", 10), version |-> <<"0", ".", "0", ".", "1">>,
     domain |-> <<>>, exclude |-> {}]

Definitions == {GreeterScript, OrgScript, DraftScript, NoDomainScript}

\* The @exclude rules written in the header of a script text.
ExcludeRules(src) ==
    UNION {d.exclude : d \in {x \in Definitions : x.sourceCode = src}}

QueryUrls == {ExampleHomeUrl, ExampleAdminUrl, ExampleOrgUrl}

\* A timestamp is an NSDate when [NSDate date] made it (lines 78, 158) and an
\* NSNumber when it was read from JSON, which has no date type.
NSDate(t) == [class |-> "NSDate", time |-> t]
NSNumber(t) == [class |-> "NSNumber", time |-> t]

\* Lines 72-79: the metadata dictionary save builds.
Metadata(scriptId, name, description, version, domainPattern, date) ==
    [id |-> scriptId, name |-> name, description |-> description,
     version |-> version, domain |-> domainPattern, updatedAt |-> date]

\* Dictionaries are functions on the set of their keys.
EmptyDict == <<>>
SetObject(dict, key, obj) ==
    [k \in DOMAIN dict \cup {key} |-> IF k = key THEN obj ELSE dict[k]]
RemoveObject(dict, key) == [k \in DOMAIN dict \ {key} |-> dict[k]]

\* A value that may be missing (nil), null (NSNull) or a dictionary.
Absent == [t |-> "absent"]
JNull == [t |-> "null"]
Dict(d) == [t |-> "dict", v |-> d]

\* Lines 49-50: savedX ? [savedX mutableCopy] : [NSMutableDictionary dictionary]
MutableCopyOrEmpty(saved) == IF saved.t = "dict" THEN saved.v ELSE EmptyDict

NoCall == [op |-> "none"]
ThreadsIdle ==
    /\ pc = [t \in Threads |-> "idle"]
    /\ job = [t \in Threads |-> NoCall]
MatcherIdle == mPattern = <<>> /\ mUrl = <<>> /\ mResult = "none"

\* The backend before any request: no document, no handler running.
Handlers == {"h1", "h2"}
DocIds == {"d1"}
Unused == [t |-> "unused"]
Users == {"u1", "u2"}
AccountIds == {"a1", "a2"}
HandlersIdle ==
    /\ request = [h \in Handlers |-> [pc |-> "idle"]]
    /\ userScripts = [u \in Users |-> [scripts |-> <<>>, v |-> 0]]
    /\ accounts = [a \in AccountIds |-> Unused]
ApiIdle ==
    /\ scriptCollection = [id \in DocIds |-> Unused]
    /\ HandlersIdle

\* The sync client before its script is loaded on a page.
NoToken == "null"
SyncIdle ==
    /\ gmStore = [synced_scripts |-> Absent, last_sync |-> Absent]
    /\ syncPage = [token |-> NoToken, timer |-> FALSE]
    /\ inFlight = <<>>

\* No page load is being served and no host operation has been performed.
PageIdle ==
    /\ effects = {}
    /\ dispatch = [phase |-> "Idle"]

OuterIdle == ApiIdle /\ SyncIdle /\ PageIdle

\* sharedManager: init, then loadScripts on a storage never written.
StoreInit ==
    /\ scripts = EmptyDict
    /\ scriptSources = EmptyDict
    /\ storedMetadata = Absent
    /\ storedSources = Absent
    /\ now = 0
    /\ last = NoCall

\* ------------------------------------------------------------------------
\* Spec: the ScriptManager singleton, one action per method call
\* ------------------------------------------------------------------------
\* A write that leaves the stored sources as they were.
StoreMetadataOnly ==
    /\ storedMetadata' = Dict(scripts')
    /\ UNCHANGED storedSources

\* Lines 55-58: both dictionaries are written to NSUserDefaults.
SaveScriptsToStorage ==
    /\ storedMetadata' = Dict(scripts')
    /\ storedSources' = Dict(scriptSources')

idle == UNCHANGED <<matchVars, outerVars, concVars, outerVars>>

\* [NSDate date] advances between calls.
Tick ==
    /\ now < MaxTime
    /\ now' = now + 1
    /\ UNCHANGED <<storeVars, last>>
    /\ idle

\* saveScriptWithId:name:description:sourceCode:version:domain: (65-86)
SaveScript(scriptId, d) ==
    /\ scripts' = SetObject(scripts, scriptId,
                            Metadata(scriptId, d.name, d.description, d.version,
                                     d.domain, NSDate(now)))
    /\ scriptSources' = SetObject(scriptSources, scriptId, d.sourceCode)
    /\ SaveScriptsToStorage
    /\ last' = [op |-> "save", id |-> scriptId]
    /\ UNCHANGED now
    /\ idle

\* removeScriptById: (88-96)
RemoveScript(scriptId) ==
    /\ scripts' = RemoveObject(scripts, scriptId)
    /\ scriptSources' = RemoveObject(scriptSources, scriptId)
    /\ SaveScriptsToStorage
    /\ last' = [op |-> "remove", id |-> scriptId]
    /\ UNCHANGED now
    /\ idle

\* clearAllScripts (98-104)
ClearAllScripts ==
    /\ scripts' = EmptyDict
    /\ scriptSources' = EmptyDict
    /\ SaveScriptsToStorage
    /\ last' = [op |-> "clearAll"]
    /\ UNCHANGED now
    /\ idle

\* loadScripts (45-53)
LoadScripts ==
    /\ scripts' = MutableCopyOrEmpty(storedMetadata)
    /\ scriptSources' = MutableCopyOrEmpty(storedSources)
    /\ last' = [op |-> "load"]
    /\ UNCHANGED <<storedMetadata, storedSources, now>>
    /\ idle

\* The orders in which a dictionary may enumerate the keys in S.
Orderings(S) ==
    {o \in [1..Cardinality(S) -> S] : \A i, j \in DOMAIN o : o[i] = o[j] => i = j}
Range(f) == {f[x] : x \in DOMAIN f}

\* scriptsForURL: (108-124): the sources of the scripts whose domain pattern
\* matches the lower-cased URL, in the dictionary's enumeration order.
MatchingKeys(url) ==
    {key \in DOMAIN scripts :
        /\ urlMatchesPattern(lowercaseString(url), scripts[key].domain)
        /\ key \in DOMAIN scriptSources}

ScriptsForURL(url) ==
    /\ \E o \in Orderings(MatchingKeys(url)) :
          last' = [op |-> "scriptsForURL", url |-> url,
                   result |-> [i \in DOMAIN o |-> scriptSources[o[i]]]]
    /\ UNCHANGED <<storeVars, now>>
    /\ idle

\* ---- import ------------------------------------------------------------
\* The format tag exportScriptsAsJSON writes (line 159).
FormatVersion == "1.0"

\* What an imported string may be: no JSON at all, JSON whose top level is
\* not an object, or an object whose "metadata" and "sources" are missing,
\* null or dictionaries.  Imported metadata carries its updatedAt as a number.
ImportedMetadata ==
    {Absent, JNull}
    \cup {Dict([k \in {"s1"} |->
                  Metadata("s1", d.name, d.description, d.version, d.domain,
                           NSNumber(0))]) :
            d \in {GreeterScript, OrgScript}}
ImportedSources ==
    {Absent, JNull, Dict(EmptyDict),
     Dict([k \in {"s1"} |-> GreeterScript.sourceCode])}
ImportedVersions == {FormatVersion, "9.9"}

Snapshots ==
    {[kind |-> "garbage"], [kind |-> "array"]}
    \cup {[kind |-> "object", metadata |-> m, sources |-> s, version |-> v] :
            m \in ImportedMetadata, s \in ImportedSources, v \in ImportedVersions}

ImportOutcome(result, newScripts, newSources, saved) ==
    [result |-> result, scripts |-> newScripts, scriptSources |-> newSources,
     saved |-> saved]

\* A variant that takes over the metadata before looking at the sources.
importEagerly(json, curScripts, curSources) ==
    IF json.kind = "garbage"
    THEN ImportOutcome("NO", curScripts, curSources, FALSE)
    ELSE IF json.kind = "array"
    THEN ImportOutcome("exception", curScripts, curSources, FALSE)
    ELSE IF json.metadata.t = "absent"
    THEN ImportOutcome("NO", curScripts, curSources, FALSE)
    ELSE IF json.metadata.t = "null"
    THEN ImportOutcome("exception", curScripts, curSources, FALSE)
    ELSE IF json.sources.t = "absent"
    THEN ImportOutcome("NO", json.metadata.v, curSources, FALSE)
    ELSE IF json.sources.t = "null"
    THEN ImportOutcome("exception", json.metadata.v, curSources, FALSE)
    ELSE ImportOutcome("YES", json.metadata.v, json.sources.v, TRUE)

\* importScriptsFromJSON: (174-199): the value returned (or "exception"),
\* the two dictionaries afterwards, and whether saveScriptsToStorage ran.
importScriptsFromJSON(json, curScripts, curSources) ==
    IF json.kind = "garbage"
    THEN \* 181-184: the parser reports an error
         ImportOutcome("NO", curScripts, curSources, FALSE)
    ELSE IF json.kind = "array"
    THEN \* 186: an array is subscripted with a key
         ImportOutcome("exception", curScripts, curSources, FALSE)
    ELSE IF json.metadata.t = "absent" \/ json.sources.t = "absent"
    THEN \* 189, 198
         ImportOutcome("NO", curScripts, curSources, FALSE)
    ELSE IF json.metadata.t = "null"
    THEN \* 190: [NSNull mutableCopy]
         ImportOutcome("exception", curScripts, curSources, FALSE)
    ELSE IF json.sources.t = "null"
    THEN \* 190 has run, 191 throws
         ImportOutcome("exception", json.metadata.v, curSources, FALSE)
    ELSE \* 190-195
         ImportOutcome("YES", json.metadata.v, json.sources.v, TRUE)

\* An uncaught exception ends the process; the next launch builds the
\* singleton anew and loadScripts reads the storage (lines 23-31, 45-53).
ImportScripts(json) ==
    LET out == importScriptsFromJSON(json, scripts, scriptSources)
    IN  /\ IF out.result = "exception"
           THEN /\ scripts' = MutableCopyOrEmpty(storedMetadata)
                /\ scriptSources' = MutableCopyOrEmpty(storedSources)
           ELSE /\ scripts' = out.scripts
                /\ scriptSources' = out.scriptSources
        /\ IF out.saved THEN SaveScriptsToStorage
           ELSE UNCHANGED <<storedMetadata, storedSources>>
        /\ last' = [op |-> "import", result |-> out.result,
                    version |-> IF json.kind = "object" THEN json.version ELSE "none"]
        /\ UNCHANGED now
        /\ idle

\* ---- export ------------------------------------------------------------
\* Lines 155-160: the dictionary handed to the JSON writer.
ExportData(metadata, sources, date) ==
    [metadata |-> metadata, sources |-> sources, exportDate |-> NSDate(date),
     version |-> FormatVersion]

\* +[NSJSONSerialization isValidJSONObject:]: every leaf is a string, a
\* number or null.  Names, sources, versions and patterns are strings; the
\* timestamps are the leaves that may be of another class.
isValidJSONObject(data) ==
    /\ data.exportDate.class # "NSDate"
    /\ \A key \in DOMAIN data.metadata :
          data.metadata[key].updatedAt.class # "NSDate"

\* The object a reader of the written text gets back (line 177).
JSONObjectWithData(data) ==
    [kind |-> "object", metadata |-> Dict(data.metadata),
     sources |-> Dict(data.sources), version |-> data.version]

\* exportScriptsAsJSON (154-172): line 163 raises on an object that is not
\* valid JSON; otherwise the text is returned.
exportScriptsAsJSON(metadata, sources, date) ==
    LET exportData == ExportData(metadata, sources, date)
    IN  IF isValidJSONObject(exportData)
        THEN [result |-> "json", json |-> JSONObjectWithData(exportData)]
        ELSE [result |-> "exception"]

\* The exception of line 163 is caught nowhere: the process ends and the next
\* launch reads the storage.
ExportScripts ==
    LET out == exportScriptsAsJSON(scripts, scriptSources, now)
    IN  /\ IF out.result = "exception"
           THEN /\ scripts' = MutableCopyOrEmpty(storedMetadata)
                /\ scriptSources' = MutableCopyOrEmpty(storedSources)
           ELSE UNCHANGED <<scripts, scriptSources>>
        /\ last' = [op |-> "export", result |-> out.result]
        /\ UNCHANGED <<storedMetadata, storedSources, now>>
        /\ idle

Init ==
    /\ StoreInit
    /\ ThreadsIdle
    /\ MatcherIdle
    /\ OuterIdle

Next ==
    \/ Tick
    \/ \E scriptId \in ScriptIds, d \in Definitions : SaveScript(scriptId, d)
    \/ \E scriptId \in ScriptIds : RemoveScript(scriptId)
    \/ ClearAllScripts
    \/ LoadScripts
    \/ \E url \in QueryUrls : ScriptsForURL(url)
    \/ \E json \in Snapshots : ImportScripts(json)
    \/ ExportScripts

Spec == Init /\ [][Next]_vars

\* ------------------------------------------------------------------------
\* SpecConc: two threads, one call each on the shared singleton
\* ------------------------------------------------------------------------
\* ScriptManager takes no lock and dispatches to no queue, so the statements
\* of two calls interleave.  Each step below is one statement of save,
\* remove or saveScriptsToStorage, executed whole.
Goto(t, label) == pc' = [pc EXCEPT ![t] = label]

\* 65-79: the call is entered and the metadata dictionary is built.
BeginSave(t, scriptId, d) ==
    /\ pc[t] = "idle"
    /\ job' = [job EXCEPT ![t] =
                 [op |-> "save", id |-> scriptId,
                  metadata |-> Metadata(scriptId, d.name, d.description,
                                        d.version, d.domain, NSDate(now)),
                  sourceCode |-> d.sourceCode]]
    /\ Goto(t, "save81")
    /\ UNCHANGED <<matchVars, outerVars, storeVars, now, last>>

\* 81: self.scripts[scriptId] = metadata;
SaveMetadata(t) ==
    /\ pc[t] = "save81"
    /\ scripts' = SetObject(scripts, job[t].id, job[t].metadata)
    /\ Goto(t, "save82")
    /\ UNCHANGED <<matchVars, outerVars, scriptSources, storedMetadata, storedSources,
                   now, last, job>>

\* 82: self.scriptSources[scriptId] = sourceCode;
SaveSource(t) ==
    /\ pc[t] = "save82"
    /\ scriptSources' = SetObject(scriptSources, job[t].id, job[t].sourceCode)
    /\ Goto(t, "store56")
    /\ UNCHANGED <<matchVars, outerVars, scripts, storedMetadata, storedSources,
                   now, last, job>>

\* 88-89: the call is entered (the name is read for the log only).
BeginRemove(t, scriptId) ==
    /\ pc[t] = "idle"
    /\ job' = [job EXCEPT ![t] = [op |-> "remove", id |-> scriptId]]
    /\ Goto(t, "remove91")
    /\ UNCHANGED <<matchVars, outerVars, storeVars, now, last>>

\* 91: [self.scripts removeObjectForKey:scriptId];
RemoveMetadata(t) ==
    /\ pc[t] = "remove91"
    /\ scripts' = RemoveObject(scripts, job[t].id)
    /\ Goto(t, "remove92")
    /\ UNCHANGED <<matchVars, outerVars, scriptSources, storedMetadata, storedSources,
                   now, last, job>>

\* 92: [self.scriptSources removeObjectForKey:scriptId];
RemoveSource(t) ==
    /\ pc[t] = "remove92"
    /\ scriptSources' = RemoveObject(scriptSources, job[t].id)
    /\ Goto(t, "store56")
    /\ UNCHANGED <<matchVars, outerVars, scripts, storedMetadata, storedSources,
                   now, last, job>>

\* 56: [self.storage setObject:self.scripts forKey:@"StayScriptsMetadata"];
StoreMetadata(t) ==
    /\ pc[t] = "store56"
    /\ storedMetadata' = Dict(scripts)
    /\ Goto(t, "store57")
    /\ UNCHANGED <<matchVars, outerVars, scripts, scriptSources, storedSources,
                   now, last, job>>

\* 57: [self.storage setObject:self.scriptSources forKey:@"StayScriptsSources"];
\* then the call returns.
StoreSources(t) ==
    /\ pc[t] = "store57"
    /\ storedSources' = Dict(scriptSources)
    /\ Goto(t, "done")
    /\ UNCHANGED <<matchVars, outerVars, scripts, scriptSources, storedMetadata,
                   now, last, job>>

InitConc ==
    /\ StoreInit
    /\ ThreadsIdle
    /\ MatcherIdle
    /\ OuterIdle

NextConc ==
    \/ Tick
    \/ \E t \in Threads, scriptId \in ScriptIds, d \in Definitions :
          BeginSave(t, scriptId, d)
    \/ \E t \in Threads, scriptId \in ScriptIds : BeginRemove(t, scriptId)
    \/ \E t \in Threads :
          \/ SaveMetadata(t)
          \/ SaveSource(t)
          \/ RemoveMetadata(t)
          \/ RemoveSource(t)
          \/ StoreMetadata(t)
          \/ StoreSources(t)

SpecConc == InitConc /\ [][NextConc]_vars

AllDone == \A t \in Threads : pc[t] = "done"

\* The record of call t is in the pair of dictionaries, whole.
HoldsRecordOf(t, metadataDict, sourcesDict) ==
    /\ job[t].id \in DOMAIN metadataDict \cap DOMAIN sourcesDict
    /\ metadataDict[job[t].id] = job[t].metadata
    /\ sourcesDict[job[t].id] = job[t].sourceCode

HoldsNothingOf(scriptId, metadataDict, sourcesDict) ==
    scriptId \notin DOMAIN metadataDict \cup DOMAIN sourcesDict

\* C6: a save and a remove of the same id that run concurrently resolve
\* atomically: when both have returned, the saved record is entirely present
\* (metadata and source) or entirely absent, in memory and in the storage.
C6_SaveRemoveAtomic ==
    \A t, u \in Threads :
        (AllDone /\ job[t].op = "save" /\ job[u].op = "remove"
           /\ job[t].id = job[u].id) =>
            /\ \/ HoldsRecordOf(t, scripts, scriptSources)
               \/ HoldsNothingOf(job[t].id, scripts, scriptSources)
            /\ \/ HoldsRecordOf(t, storedMetadata.v, storedSources.v)
               \/ HoldsNothingOf(job[t].id, storedMetadata.v, storedSources.v)

\* C7: two concurrent saves of the same new id leave one record for that id
\* whose metadata and source both come from the same one of the two calls.
C7_ConcurrentSavesNoMix ==
    \A t, u \in Threads :
        (AllDone /\ t # u /\ job[t].op = "save" /\ job[u].op = "save"
           /\ job[t].id = job[u].id) =>
            /\ \E w \in {t, u} : HoldsRecordOf(w, scripts, scriptSources)
            /\ \E w \in {t, u} : HoldsRecordOf(w, storedMetadata.v, storedSources.v)

\* ------------------------------------------------------------------------
\* SpecMatch: url:matchesPattern: applied to every pattern and URL in bounds
\* ------------------------------------------------------------------------
MatchAlphabet == {"a", "A", ".", "*"}
MatchPatterns == Str(MaxPatternLen, MatchAlphabet)
MatchUrls     == Str(MaxUrlLen, MatchAlphabet)

MatchInputs ==
    (MatchPatterns \X MatchUrls)
    \cup {<<ExamplePattern, ExampleApiUrl>>, <<ExamplePattern, ExampleOrgUrl>>}

InitMatch ==
    /\ \E in \in MatchInputs : mPattern = in[1] /\ mUrl = in[2]
    /\ mResult = "none"
    /\ StoreInit
    /\ ThreadsIdle
    /\ OuterIdle

CallMatches ==
    /\ mResult = "none"
    /\ mResult' = IF urlMatchesPattern(mUrl, mPattern) THEN "YES" ELSE "NO"
    /\ UNCHANGED <<mPattern, mUrl, storeVars, now, last, concVars, outerVars>>

NextMatch == CallMatches

SpecMatch == InitMatch /\ [][NextMatch]_vars

\* The wildcard language of the specification, evaluated directly on the
\* pattern: * is any run of characters, every other character is itself up
\* to letter case, and pattern and URL are consumed together to their ends.
RECURSIVE Glob(_, _)
Glob(p, u) ==
    IF p = <<>> THEN u = <<>>
    ELSE IF Head(p) = "*"
         THEN Glob(Tail(p), u) \/ (u # <<>> /\ Glob(p, Tail(u)))
         ELSE /\ u # <<>>
              /\ FoldChar(Head(p)) = FoldChar(Head(u))
              /\ Glob(Tail(p), Tail(u))

HasStar(p) == \E i \in 1..Len(p) : p[i] = "*"

\* C1: matching is anchored.  url:matchesPattern: returns YES only when the
\* whole pattern matches the whole URL; for a non-empty pattern without *
\* it returns YES exactly for the URL that equals the pattern (letter case
\* aside).
C1_Anchored ==
    (mResult # "none" /\ mPattern # <<>>) =>
        /\ (mResult = "YES" => Glob(mPattern, mUrl))
        /\ (~HasStar(mPattern) =>
               (mResult = "YES" <=> lowercaseString(mUrl) = lowercaseString(mPattern)))

IsBracketed(p) == p # <<>> /\ p[1] = "*" /\ p[Len(p)] = "*"

\* C2: in a match pattern * matches any run of zero or more characters,
\* every other pattern character (regex metacharacters included) matches
\* only itself, and letter case is ignored.  Stated for the patterns that
\* begin and end with *, where the answer does not depend on anchoring:
\* url:matchesPattern: answers YES exactly when the wildcard language does;
\* and *://*.example.com/* matches https://api.example.com/path?x=1 and
\* does not match https://example.org/.
C2_WildcardLanguage ==
    /\ (mResult # "none" /\ IsBracketed(mPattern)) =>
           (mResult = "YES" <=> Glob(mPattern, mUrl))
    /\ (mResult # "none" /\ mPattern = ExamplePattern /\ mUrl = ExampleApiUrl) =>
           mResult = "YES"
    /\ (mResult # "none" /\ mPattern = ExamplePattern /\ mUrl = ExampleOrgUrl) =>
           mResult = "NO"

\* A bracketed pattern with a literal dot and a letter in the other case has
\* been matched against a URL that it matches.
C2_Witness ==
    /\ mPattern = <<"*", ".", "A", "*">>
    /\ mUrl = <<"a", ".", "a">>
    /\ mResult = "YES"

\* ------------------------------------------------------------------------
\* Claims about the store (Spec)
\* ------------------------------------------------------------------------
\* The rule of the specification: some include pattern matches and no
\* exclude pattern does.  A stored script has one include pattern, its domain.
ScriptApplies(key, url) ==
    /\ urlMatchesPattern(lowercaseString(url), scripts[key].domain)
    /\ \A e \in ExcludeRules(scriptSources[key]) :
          ~urlMatchesPattern(lowercaseString(url), e)

\* C3: a script applies to a URL if and only if at least one of its include
\* patterns matches the URL and none of its exclude patterns matches it:
\* scriptsForURL: returns exactly the sources of the scripts that apply.
C3_IncludeExclude ==
    last.op = "scriptsForURL" =>
        Range(last.result) =
            {scriptSources[key] :
               key \in {k \in DOMAIN scripts \cap DOMAIN scriptSources :
                          ScriptApplies(k, last.url)}}

ValidRecord(metadata) ==
    /\ ~RegexCompileError(RegexPatternFor(metadata.domain))
    /\ VersionWellFormed(metadata.version)
    /\ metadata.name.len <= NameMaxLen
    /\ metadata.description.len <= DescriptionMaxLen

\* C4: save validates the record before storing it, so every stored script
\* record has a pattern that compiles, a version of the form
\* digits.digits.digits and name, description and sourceCode within their
\* size limits.
C4_StoredRecordsValid ==
    /\ \A key \in DOMAIN scripts : ValidRecord(scripts[key])
    /\ \A key \in DOMAIN scriptSources : scriptSources[key].len <= SourceCodeMaxLen

\* C5: metadata and source are never out of sync: the ids with a metadata
\* entry are the ids with a source entry, in memory and in the storage.
C5_InSync ==
    /\ DOMAIN scripts = DOMAIN scriptSources
    /\ DOMAIN MutableCopyOrEmpty(storedMetadata)
         = DOMAIN MutableCopyOrEmpty(storedSources)

\* C8: import is all-or-nothing: a call of importScriptsFromJSON: that
\* returns NO leaves the dictionaries in memory and in the storage as they
\* were before the call.
C8_FailedImportChangesNothing ==
    [][(last'.op = "import" /\ last'.result = "NO") => UNCHANGED storeVars]_vars

\* An import has returned NO while the store held a script.
C8_Witness ==
    /\ last.op = "import" /\ last.result = "NO"
    /\ scripts # EmptyDict
    /\ storedMetadata = Dict(scripts)

\* C9: an import never overwrites a newer local record: where a local record
\* is newer than the incoming record of the same id, the local record (its
\* metadata and its source) is the same after the import.
C9_NewerLocalRecordKept ==
    [][\A json \in Snapshots :
          (json.kind = "object" /\ json.metadata.t = "dict" /\ ImportScripts(json)) =>
              \A key \in DOMAIN scripts \cap DOMAIN json.metadata.v :
                  json.metadata.v[key].updatedAt.time < scripts[key].updatedAt.time =>
                      /\ key \in DOMAIN scripts' /\ scripts'[key] = scripts[key]
                      /\ key \in DOMAIN scriptSources'
                      /\ key \in DOMAIN scriptSources =>
                            scriptSources'[key] = scriptSources[key]]_vars

\* C10: an import of a snapshot whose format version tag is not the one
\* export writes fails, and the store is left unchanged.
C10_UnknownVersionRejected ==
    [][\A json \in Snapshots :
          (json.kind = "object" /\ json.version # FormatVersion
             /\ ImportScripts(json)) =>
              (last'.result # "YES" /\ UNCHANGED storeVars)]_vars

\* C11: for every store state, exporting all scripts and importing that
\* export succeeds and yields the same store: after a call of export, the
\* call has returned JSON text, and importing that text returns YES with the
\* metadata and the sources the store holds.
C11_ExportImportRoundTrip ==
    last.op = "export" =>
        LET out == exportScriptsAsJSON(scripts, scriptSources, now)
        IN  /\ last.result = "json"
            /\ out.result = "json"
            /\ LET back == importScriptsFromJSON(out.json, scripts, scriptSources)
               IN  /\ back.result = "YES"
                   /\ back.scripts = scripts
                   /\ back.scriptSources = scriptSources

\* C15: the sources scriptsForURL returns are those of the matching scripts
\* ordered by updatedAt, newest first.
C15_OrderedByUpdatedAt ==
    last.op = "scriptsForURL" =>
        \E o \in Orderings(MatchingKeys(last.url)) :
            /\ last.result = [i \in DOMAIN o |-> scriptSources[o[i]]]
            /\ \A i, j \in DOMAIN o :
                  i < j => scripts[o[i]].updatedAt.time >= scripts[o[j]].updatedAt.time

\* C20: a script saved with an empty domain pattern is returned by
\* scriptsForURL for no URL: the result of a call holds the source of no
\* script whose domain is empty.
C20_EmptyDomainNeverSelected ==
    last.op = "scriptsForURL" =>
        \A key \in DOMAIN scripts \cap DOMAIN scriptSources :
            scripts[key].domain = <<>> =>
                \A i \in DOMAIN last.result : last.result[i] # scriptSources[key]

\* scriptsForURL has selected a script while the store also held a script
\* with an empty domain and a source.
C20_Witness ==
    /\ last.op = "scriptsForURL"
    /\ last.result # <<>>
    /\ \E key \in DOMAIN scripts \cap DOMAIN scriptSources :
          scripts[key].domain = <<>>

\* ------------------------------------------------------------------------
\* The backend: routes/scripts.js over the Script model
\* ------------------------------------------------------------------------
\* Of a Script document the model keeps the author, the source, the version,
\* the version history, isPublic, updatedAt, the reviews and the rating; of
\* a history entry the version and the source, of a review the reviewer and
\* the rating given.  rating.average is kept as the quotient the code
\* computes: the sum of the ratings over their number.  Counters and the descriptive fields are left
\* out; isActive is set by no route and stays true.  An _id is Unused until
\* a document is created with it and Deleted afterwards, since an ObjectId
\* is never issued twice.  Of a User document the script routes touch the
\* scripts array and, through it, the version key __v.
Deleted == [t |-> "deleted"]

DefaultVersion == <<"1", ".", "0", ".", "0">>
NextVersion == <<"2", ".", "0", ".", "0">>
NoText == Text("", 0)
SourceA == Text("a.js", 10)
SourceB == Text("b.js", 20)
SourceHuge == Text("huge.js", SourceCodeMaxLen + 1)

\* What a request body may carry; a missing field and an empty string are
\* both falsy to the route, and both are NoText / <<>> here.
BodySources == {NoText, SourceA, SourceB, SourceHuge}
BodyVersions == {<<>>, DefaultVersion, NextVersion, <<"v", "2">>}
Undefined == "undefined"
Bodies == [sourceCode : BodySources, version : BodyVersions,
           isPublic : {Undefined}]

TruthyText(text) == text.len > 0
TruthyString(str) == str # <<>>

\* Schema validators of the modelled paths (part_003 15-25).
Validates(doc) ==
    /\ TruthyText(doc.sourceCode)
    /\ doc.sourceCode.len <= SourceCodeMaxLen
    /\ VersionWellFormed(doc.version)

\* A saveVersion that pushes nothing.
NoSnapshot(doc) == doc

\* saveVersion (part_003 159-165), up to its save: the push.
saveVersion(doc) ==
    [doc EXCEPT !.versionHistory =
        Append(@, [version |-> doc.version, sourceCode |-> doc.sourceCode])]

\* scripts.js 103: if (sourceCode && sourceCode !== script.sourceCode)
ShouldSaveVersion(body, doc) ==
    TruthyText(body.sourceCode) /\ body.sourceCode # doc.sourceCode

\* scripts.js 108-111: the fields the body carries are assigned.
AssignFields(doc, body) ==
    [doc EXCEPT
        !.sourceCode = IF TruthyText(body.sourceCode) THEN body.sourceCode ELSE @,
        !.version = IF TruthyString(body.version) THEN body.version ELSE @,
        !.isPublic = IF body.isPublic # Undefined
                     THEN body.isPublic = "true" ELSE @]

\* A save that writes the whole document as the handler holds it.
WriteWhole(storedDoc, loaded, local) == local

\* document.save() of a loaded document: the paths assigned a new value are
\* $set, the entries pushed on an array are $push-ed; the rest of the stored
\* document is left as it is.  The pre-save hook (part_003 134-137) assigns
\* updatedAt the current time on every save.
WriteBack(storedDoc, loaded, local) ==
    [storedDoc EXCEPT
        !.isPublic = IF local.isPublic # loaded.isPublic
                     THEN local.isPublic ELSE @,
        !.updatedAt = now,
        !.reviews =
            @ \o SubSeq(local.reviews, Len(loaded.reviews) + 1,
                        Len(local.reviews)),
        !.rating = IF local.rating # loaded.rating THEN local.rating ELSE @,
        !.sourceCode = IF local.sourceCode # loaded.sourceCode
                       THEN local.sourceCode ELSE @,
        !.version = IF local.version # loaded.version THEN local.version ELSE @,
        !.versionHistory =
            @ \o SubSeq(local.versionHistory, Len(loaded.versionHistory) + 1,
                        Len(local.versionHistory))]

\* findOne({_id, authorId}) (scripts.js 91-94, 132-135)
Exists(id) == scriptCollection[id] \notin {Unused, Deleted}
findOne(id, user) == Exists(id) /\ scriptCollection[id].authorId = user

Respond(op, status) == last' = [op |-> op, status |-> status]
apiIdle ==
    UNCHANGED <<matchVars, storeVars, concVars, now, syncVars, pageVars, accounts>>


\* scripts.js 59-70: new Script({...}); versionHistory starts empty.
NewDocument(user, body) ==
    [authorId |-> user, sourceCode |-> body.sourceCode,
     version |-> IF TruthyString(body.version) THEN body.version
                 ELSE DefaultVersion,
     versionHistory |-> <<>>,
     isPublic |-> body.isPublic = "true",
     updatedAt |-> now,
     reviews |-> <<>>,
     rating |-> [average |-> [sum |-> 0, of |-> 1], count |-> 0]]

\* scripts.js 75-76: req.user.scripts.push(script._id) and the save; a push
\* is sent as $push and increments __v.
PushScript(userDoc, id) ==
    [scripts |-> Append(userDoc.scripts, id), v |-> userDoc.v + 1]

\* scripts.js 142-145: req.user.scripts is assigned the filtered array and
\* saved; an array that has changed is $set whole and increments __v.
Without(list, id) == SelectSeq(list, LAMBDA x : x # id)
PullScript(userDoc, id) ==
    IF Without(userDoc.scripts, id) = userDoc.scripts THEN userDoc
    ELSE [scripts |-> Without(userDoc.scripts, id), v |-> userDoc.v + 1]

\* POST / (50-86)
CreateScript(user, body) ==
    /\ IF ~TruthyText(body.sourceCode)
       THEN Respond("post", 400) /\ UNCHANGED <<scriptCollection, userScripts>>
       ELSE IF ~Validates(NewDocument(user, body))
       THEN Respond("post", 500) /\ UNCHANGED <<scriptCollection, userScripts>>
       ELSE /\ \E id \in DOMAIN scriptCollection :
                  /\ scriptCollection[id] = Unused
                  /\ scriptCollection' =
                        [scriptCollection EXCEPT ![id] = NewDocument(user, body)]
                  /\ userScripts' =
                        [userScripts EXCEPT ![user] = PushScript(@, id)]
            /\ Respond("post", 201)
    /\ UNCHANGED request
    /\ apiIdle

\* DELETE /:id (130-154): findOneAndDelete is one database operation.
DeleteScript(user, id) ==
    /\ IF findOne(id, user)
       THEN /\ scriptCollection' = [scriptCollection EXCEPT ![id] = Deleted]
            /\ userScripts' = [userScripts EXCEPT ![user] = PullScript(@, id)]
            /\ Respond("delete", 200)
       ELSE Respond("delete", 404) /\ UNCHANGED <<scriptCollection, userScripts>>
    /\ UNCHANGED request
    /\ apiIdle

\* PUT /:id, lines 100-117, on the document found and with no other request
\* in between: the status answered and the document stored afterwards.
putScript(storedDoc, body) ==
    LET versioned == IF ShouldSaveVersion(body, storedDoc)
                     THEN saveVersion(storedDoc) ELSE storedDoc
        afterFirst == WriteBack(storedDoc, storedDoc, versioned)
        assigned == AssignFields(versioned, body)
    IN  IF ~Validates(versioned)
        THEN [status |-> 500, doc |-> storedDoc]
        ELSE IF ~Validates(assigned)
        THEN [status |-> 500, doc |-> afterFirst]
        ELSE [status |-> 200, doc |-> WriteBack(afterFirst, versioned, assigned)]

\* PUT /:id (89-127)
UpdateScript(user, id, body) ==
    /\ IF ~findOne(id, user)
       THEN Respond("put", 404) /\ UNCHANGED scriptCollection
       ELSE LET out == putScript(scriptCollection[id], body)
            IN  /\ ShouldSaveVersion(body, scriptCollection[id]) =>
                      Len(scriptCollection[id].versionHistory) < MaxHistory
                /\ scriptCollection' = [scriptCollection EXCEPT ![id] = out.doc]
                /\ Respond("put", out.status)
    /\ UNCHANGED <<request, userScripts>>
    /\ apiIdle

NextApi ==
    \/ \E user \in Users, body \in Bodies : CreateScript(user, body)
    \/ \E user \in Users, id \in DocIds, body \in Bodies :
          UpdateScript(user, id, body)
    \/ \E user \in Users, id \in DocIds : DeleteScript(user, id)

SpecApi == Init /\ [][NextApi]_vars

\* ------------------------------------------------------------------------
\* SpecApiConc: two request handlers on the same collection
\* ------------------------------------------------------------------------
\* A handler runs without interruption from one await to the next; each
\* awaited database operation takes effect in one step, and operations of
\* other handlers may come in between.
HandlerIdle == [pc |-> "idle"]
Waiting(h, label, id, body, loaded, local) ==
    request' = [request EXCEPT ![h] =
                  [pc |-> label, id |-> id, body |-> body,
                   loaded |-> loaded, local |-> local]]
Finish(h, op, status) ==
    /\ request' = [request EXCEPT ![h] = HandlerIdle]
    /\ Respond(op, status)

\* The snapshots on their way to the history of a document.
PendingPushes(id) ==
    Cardinality({h \in Handlers :
                    request[h].pc = "put104" /\ request[h].id = id})

\* 91-104 and, where no snapshot is due, 108-117: findOne answers, and the
\* handler runs up to the save it awaits next.
PutFind(h, user, id, body) ==
    /\ request[h].pc = "idle"
    /\ IF ~findOne(id, user)
       THEN Respond("put", 404) /\ UNCHANGED request
       ELSE LET loaded == scriptCollection[id]
                assigned == AssignFields(loaded, body)
            IN  IF ShouldSaveVersion(body, loaded)
                THEN /\ Len(loaded.versionHistory) + PendingPushes(id) < MaxHistory
                     /\ IF Validates(loaded)
                        THEN /\ Waiting(h, "put104", id, body, loaded,
                                        saveVersion(loaded))
                             /\ UNCHANGED last
                        ELSE Respond("put", 500) /\ UNCHANGED request
                ELSE IF Validates(assigned)
                THEN /\ Waiting(h, "put117", id, body, loaded, assigned)
                     /\ UNCHANGED last
                ELSE Respond("put", 500) /\ UNCHANGED request
    /\ UNCHANGED <<scriptCollection, userScripts>>
    /\ apiIdle

\* 104 resolves: the save inside saveVersion has reached the collection (or
\* found the document gone); then 108-117 run up to the second save.
PutVersionSaved(h) ==
    /\ request[h].pc = "put104"
    /\ LET r == request[h]
           assigned == AssignFields(r.local, r.body)
       IN  IF ~Exists(r.id)
           THEN Finish(h, "put", 500) /\ UNCHANGED scriptCollection
           ELSE /\ scriptCollection' =
                      [scriptCollection EXCEPT
                          ![r.id] = WriteBack(@, r.loaded, r.local)]
                /\ IF Validates(assigned)
                   THEN /\ Waiting(h, "put117", r.id, r.body, r.local, assigned)
                        /\ UNCHANGED last
                   ELSE Finish(h, "put", 500)
    /\ UNCHANGED userScripts
    /\ apiIdle

\* 117 resolves, 119-123 answer.
PutSaved(h) ==
    /\ request[h].pc = "put117"
    /\ LET r == request[h]
       IN  IF ~Exists(r.id)
           THEN Finish(h, "put", 500) /\ UNCHANGED scriptCollection
           ELSE /\ scriptCollection' =
                      [scriptCollection EXCEPT
                          ![r.id] = WriteBack(@, r.loaded, r.local)]
                /\ Finish(h, "put", 200)
    /\ UNCHANGED userScripts
    /\ apiIdle

\* The bodies sent while requests overlap: a new source, a new source with
\* a new version, a new version alone, and a new source with a version the
\* schema rejects.
OverlapBodies ==
    {[sourceCode |-> SourceA, version |-> <<>>, isPublic |-> Undefined],
     [sourceCode |-> SourceB, version |-> NextVersion, isPublic |-> Undefined],
     [sourceCode |-> NoText, version |-> NextVersion, isPublic |-> Undefined],
     [sourceCode |-> SourceB, version |-> <<"v", "2">>, isPublic |-> Undefined]}

NextApiConc ==
    \/ \E user \in Users, body \in OverlapBodies : CreateScript(user, body)
    \/ \E user \in Users, id \in DocIds : DeleteScript(user, id)
    \/ \E h \in Handlers, user \in Users, id \in DocIds, body \in OverlapBodies :
          PutFind(h, user, id, body)
    \/ \E h \in Handlers : PutVersionSaved(h)
    \/ \E h \in Handlers : PutSaved(h)

SpecApiConc == Init /\ [][NextApiConc]_vars

\* ------------------------------------------------------------------------
\* Claims about updates (SpecApi)
\* ------------------------------------------------------------------------
\* An update by the author that carries a source other than the stored one.
ChangesSource(user, id, body) ==
    findOne(id, user) /\ ShouldSaveVersion(body, scriptCollection[id])

\* C12 as the specification words it: a successful update of a script from
\* source S1 to a different S2 leaves the live record with S2, makes the
\* history one entry longer, and the last-but-one entry of the history has
\* source S1.
C12_SnapshotLastButOne ==
    [][\A user \in Users, id \in DocIds, body \in Bodies :
          (ChangesSource(user, id, body) /\ UpdateScript(user, id, body)
             /\ last'.status = 200) =>
              LET before == scriptCollection[id]
                  after == scriptCollection'[id]
                  n == Len(after.versionHistory)
              IN  /\ after.sourceCode = body.sourceCode
                  /\ n = Len(before.versionHistory) + 1
                  /\ n >= 2
                  /\ after.versionHistory[n - 1].sourceCode = before.sourceCode]_vars

\* C12 amended: a successful update of a script from source S1 to a
\* different S2 leaves the live record with S2, makes the history one entry
\* longer, and the last entry of the history has source S1.
C12_SnapshotLast ==
    [][\A user \in Users, id \in DocIds, body \in Bodies :
          (ChangesSource(user, id, body) /\ UpdateScript(user, id, body)
             /\ last'.status = 200) =>
              LET before == scriptCollection[id]
                  after == scriptCollection'[id]
                  n == Len(after.versionHistory)
              IN  /\ after.sourceCode = body.sourceCode
                  /\ n = Len(before.versionHistory) + 1
                  /\ after.versionHistory[n].sourceCode = before.sourceCode]_vars

\* A second successful update has changed the source back: the history has
\* two entries, the last one holds the source just replaced and the one
\* before it holds the source now live.
C12_Witness ==
    /\ last = [op |-> "put", status |-> 200]
    /\ \E id \in DocIds :
          /\ Exists(id)
          /\ Len(scriptCollection[id].versionHistory) = 2
          /\ scriptCollection[id].versionHistory[2].sourceCode
                # scriptCollection[id].sourceCode
          /\ scriptCollection[id].versionHistory[1].sourceCode
                = scriptCollection[id].sourceCode

\* C13: every step that changes the source or the version of a stored
\* script appends the (version, source) it replaces to the history, so no
\* pair the record held is lost.
C13_HistoryNeverLost ==
    [][\A id \in DocIds :
          (Exists(id) /\ scriptCollection'[id] \notin {Unused, Deleted}
             /\ <<scriptCollection'[id].version, scriptCollection'[id].sourceCode>>
                  # <<scriptCollection[id].version, scriptCollection[id].sourceCode>>) =>
              scriptCollection'[id].versionHistory =
                  Append(scriptCollection[id].versionHistory,
                         [version |-> scriptCollection[id].version,
                          sourceCode |-> scriptCollection[id].sourceCode])]_vars

\* A history h is how a history g began.
IsPrefix(h, g) == Len(h) <= Len(g) /\ SubSeq(g, 1, Len(h)) = h

\* C14: the version history is append-only: across every step, concurrent
\* updates of the same script included, the history a stored script had
\* before the step is a prefix of the one it has after it.
C14_HistoryAppendOnly ==
    [][\A id \in DocIds :
          (Exists(id) /\ scriptCollection'[id] \notin {Unused, Deleted}) =>
              IsPrefix(scriptCollection[id].versionHistory,
                       scriptCollection'[id].versionHistory)]_vars

\* Two updates have overlapped: a handler that loaded the document when its
\* history was shorter has written to it after another update appended.
C14_Witness ==
    /\ last = [op |-> "put", status |-> 200]
    /\ \E h \in Handlers, id \in DocIds :
          /\ request[h].pc = "put117"
          /\ request[h].id = id
          /\ Exists(id)
          /\ Len(scriptCollection[id].versionHistory) = 2
          /\ Len(request[h].local.versionHistory) = 1

\* ------------------------------------------------------------------------
\* SpecSync: the sync client userscript on one page (part_000 264-515)
\* ------------------------------------------------------------------------
Token == "token"
Stored(v) == [t |-> "value", v |-> v]

\* What GM_xmlhttpRequest may report for GET /scripts: a response whose text
\* is JSON or not, with its status, or a network error, or a timeout.
Answer(event, status, parses, data) ==
    [event |-> event, status |-> status, parses |-> parses, data |-> data]
Answers ==
    {Answer("load", 200, TRUE, d) : d \in {"listA", "listB", "null"}}
    \cup {Answer("load", 401, TRUE, "error"), Answer("load", 500, TRUE, "error"),
          Answer("load", 200, FALSE, "none"),
          Answer("error", 0, FALSE, "none"), Answer("timeout", 0, FALSE, "none")}

\* StayAPI.request (296-323): how the promise settles.
Resolved(data) == [settled |-> "resolved", data |-> data]
Rejected == [settled |-> "rejected", data |-> "none"]
requestSettles(answer) ==
    IF answer.event = "load"
    THEN IF ~answer.parses
         THEN Rejected                                 \* 314-316
         ELSE IF answer.status >= 200 /\ answer.status < 300
         THEN Resolved(answer.data)                    \* 310-311
         ELSE Rejected                                 \* 312-313
    ELSE Rejected                                      \* 318-319

\* A sync that stamps last_sync whatever the remote said.
syncStampsAlways(store, answer, date) ==
    LET got == requestSettles(answer)
    IN  IF got.settled = "rejected"
        THEN [store |-> [store EXCEPT !.last_sync = Stored(date)],
              result |-> "failed"]
        ELSE [store |-> [synced_scripts |-> Stored(got.data),
                         last_sync |-> Stored(date)],
              result |-> IF got.data = "null" THEN "failed" ELSE "synced"]

\* SyncManager.sync from the await on (403-415): a rejection goes to the
\* catch; a resolution is stored and stamped, and reading .length of a null
\* list then throws into the same catch.
syncAfterAwait(store, answer, date) ==
    LET got == requestSettles(answer)
    IN  IF got.settled = "rejected"
        THEN [store |-> store, result |-> "failed"]
        ELSE [store |-> [synced_scripts |-> Stored(got.data),
                         last_sync |-> Stored(date)],
              result |-> IF got.data = "null" THEN "failed" ELSE "synced"]

syncIdle == UNCHANGED <<matchVars, storeVars, concVars, apiVars, pageVars>>

\* SyncManager.sync up to the await (394-403), called by origin.
CallSync(origin) ==
    /\ Len(inFlight) < MaxInFlight
    /\ IF syncPage.token = NoToken
       THEN /\ last' = [op |-> "sync", request |-> "none", result |-> "skipped"]
            /\ UNCHANGED inFlight
       ELSE /\ inFlight' = Append(inFlight, origin)
            /\ UNCHANGED last
    /\ UNCHANGED <<gmStore, syncPage, now>>
    /\ syncIdle

\* The menu command (481-483).
SyncNow == CallSync("menu")

\* The interval set by autoSync (420) elapses.
TimerFires == syncPage.timer /\ CallSync("timer")

\* The request of one waiting sync() settles and the call runs to its end;
\* autoSync then sets the interval (418-421).
RemoteAnswers(i, answer) ==
    /\ i \in DOMAIN inFlight
    /\ LET out == syncAfterAwait(gmStore, answer, now)
       IN  /\ gmStore' = out.store
           /\ last' = [op |-> "sync", request |-> requestSettles(answer).settled,
                       result |-> out.result]
    /\ inFlight' = [k \in 1..(Len(inFlight) - 1) |->
                       IF k < i THEN inFlight[k] ELSE inFlight[k + 1]]
    /\ syncPage' = IF inFlight[i] = "auto"
                   THEN [syncPage EXCEPT !.timer = TRUE] ELSE syncPage
    /\ UNCHANGED now
    /\ syncIdle

\* The script has run on a page (288-289, 502-508): logged in or not; if
\* logged in, autoSync has made its first call.
InitSync ==
    /\ StoreInit
    /\ ThreadsIdle
    /\ MatcherIdle
    /\ ApiIdle
    /\ PageIdle
    /\ gmStore = [synced_scripts |-> Absent, last_sync |-> Absent]
    /\ \E token \in {NoToken, Token} :
          /\ syncPage = [token |-> token, timer |-> FALSE]
          /\ inFlight = IF token = Token THEN <<"auto">> ELSE <<>>

NextSync ==
    \/ Tick
    \/ SyncNow
    \/ TimerFires
    \/ \E i \in 1..MaxInFlight, answer \in Answers : RemoteAnswers(i, answer)

SpecSync == InitSync /\ [][NextSync]_vars

\* C16: at most one sync is in flight: a sync requested while another awaits
\* the remote joins it, so never do two calls of sync() await the remote at
\* the same time.
C16_AtMostOneInFlight == Len(inFlight) <= 1

\* C17: a failed remote list request leaves the local state unchanged: when
\* the request of a sync settles as rejected, neither synced_scripts nor
\* last_sync is written.
C17_FailedSyncWritesNothing ==
    [][\A i \in 1..MaxInFlight, answer \in Answers :
          (requestSettles(answer).settled = "rejected" /\ RemoteAnswers(i, answer))
              => UNCHANGED gmStore]_vars

\* A sync has failed on a rejected request after an earlier sync had stored
\* a list.
C17_Witness ==
    /\ last = [op |-> "sync", request |-> "rejected", result |-> "failed"]
    /\ gmStore.synced_scripts # Absent
    /\ gmStore.last_sync # Absent

\* ------------------------------------------------------------------------
\* SpecBridge: capability-gated host operations
\* ------------------------------------------------------------------------
\* The capabilities behind the GM API, and the grants the two example
\* scripts declare in their headers (part_000 8-12 and 271-275):
\* GM_addStyle is style, GM_getValue / GM_setValue are storage,
\* GM_registerMenuCommand is menu, GM_xmlhttpRequest is network.
Capabilities == {"storage", "network", "style", "menu"}
BridgeScripts == {"injector", "syncDemo", "plain"}
Grants(script) ==
    CASE script = "injector" -> {"style", "storage", "menu"}
      [] script = "syncDemo" -> {"network", "storage", "menu"}
      [] script = "plain" -> {}

\* A gate that lets every operation through.
PermitsAll(script, capability) == TRUE

\* The membership test of the gate.
Permits(script, capability) == capability \in Grants(script)

bridgeIdle ==
    UNCHANGED <<matchVars, storeVars, concVars, apiVars, syncVars, now, dispatch>>

\* A script calls an operation of a capability: without the grant the call
\* fails with CapabilityError naming the capability and nothing is performed;
\* with it the host operation is performed.
Invoke(script, capability) ==
    /\ IF Permits(script, capability)
       THEN /\ effects' = effects \cup {[script |-> script, capability |-> capability]}
            /\ last' = [op |-> "invoke", capability |-> capability, result |-> "ok"]
       ELSE /\ UNCHANGED effects
            /\ last' = [op |-> "invoke", capability |-> capability,
                        result |-> "CapabilityError"]
    /\ bridgeIdle

NextBridge ==
    \E script \in BridgeScripts, capability \in Capabilities :
        Invoke(script, capability)

SpecBridge == Init /\ [][NextBridge]_vars

BodyOutcomes == {"completed", "ScriptExecutionError"}

\* A dispatcher that gives up at the first script that throws.
StopsOnError(outcome, i, n) ==
    IF outcome = "ScriptExecutionError" \/ i = n THEN "Done" ELSE "Executing"

\* Where the dispatcher goes after script i of n: on to the next one,
\* whatever the outcome, and to Done after the last.
PhaseAfter(outcome, i, n) == IF i = n THEN "Done" ELSE "Executing"

dispatchIdle ==
    UNCHANGED <<matchVars, storeVars, concVars, apiVars, syncVars, now, effects, last>>

\* A page-load event: the matching sources are selected (scriptsForURL:,
\* 108-124) and queued.
PageLoad(url) ==
    /\ dispatch.phase \in {"Idle", "Done"}
    /\ \E o \in Orderings(MatchingKeys(url)) :
          dispatch' = [phase |-> IF o = <<>> THEN "Done" ELSE "Executing",
                       queue |-> [i \in DOMAIN o |-> scriptSources[o[i]]],
                       outcomes |-> <<>>]
    /\ dispatchIdle

\* The next queued script runs.
Execute(outcome) ==
    /\ dispatch.phase = "Executing"
    /\ LET i == Len(dispatch.outcomes) + 1
       IN  dispatch' = [dispatch EXCEPT
                          !.outcomes = Append(@, outcome),
                          !.phase = PhaseAfter(outcome, i, Len(dispatch.queue))]
    /\ dispatchIdle

InitDispatch == Init

NextDispatch ==
    \/ \E scriptId \in ScriptIds, d \in Definitions : SaveScript(scriptId, d)
    \/ \E url \in QueryUrls : PageLoad(url)
    \/ \E outcome \in BodyOutcomes : Execute(outcome)

SpecDispatch == InitDispatch /\ [][NextDispatch]_vars

\* C19: within one dispatch a script that throws does not keep later scripts
\* from running: when the dispatch is done, every selected script has run,
\* the failing ones with a recorded ScriptExecutionError.
C19_FailureDoesNotBlockSiblings ==
    dispatch.phase = "Done" =>
        /\ Len(dispatch.outcomes) = Len(dispatch.queue)
        /\ \A i \in DOMAIN dispatch.queue : dispatch.outcomes[i] \in BodyOutcomes

\* A dispatch of two scripts is done: the first threw, the second completed.
C19_Witness ==
    /\ dispatch.phase = "Done"
    /\ Len(dispatch.queue) = 2
    /\ dispatch.outcomes = <<"ScriptExecutionError", "completed">>

\* ------------------------------------------------------------------------
\* Further claims about updates (SpecApi) and the store (Spec)
\* ------------------------------------------------------------------------
\* C21: a rejected update stores nothing: when PUT /:id on the author's own
\* script is answered with an error, the stored record, its versionHistory
\* included, is exactly as before the request.
C21_RejectedUpdateStoresNothing ==
    [][\A user \in Users, id \in DocIds, body \in Bodies :
          (findOne(id, user) /\ UpdateScript(user, id, body)
             /\ last'.status # 200) =>
              UNCHANGED scriptCollection]_vars

Anonymous == "anonymous"

\* A filter that lets every existing document through.
VisibleToAll(id, user) == Exists(id)

\* {_id, $or: [{authorId: req.user._id}, {isPublic: true}]}
\* (scripts.js 27-33, 159-165)
Visible(id, user) ==
    /\ Exists(id)
    /\ scriptCollection[id].authorId = user \/ scriptCollection[id].isPublic

\* {_id, isPublic: true, isActive: true} (public.js 165-169, 193-197) and
\* the same filter of the listings (public.js 27-30, 95-98, 117-121, 143-148)
Published(id) == Exists(id) /\ scriptCollection[id].isPublic

Reply(op, status, source, history) ==
    last' = [op |-> op, status |-> status, source |-> source,
             history |-> history]

\* GET /api/scripts (scripts.js 8-22): the caller's scripts, without
\* sourceCode.
ListScripts(user) ==
    /\ Reply("list", 200, {}, {id \in DocIds : findOne(id, user)})
    /\ UNCHANGED <<scriptCollection, request, userScripts>>
    /\ apiIdle

\* GET /api/scripts/:id (scripts.js 25-47): the view count is incremented
\* and the document saved before it is returned whole.
GetScript(user, id) ==
    /\ IF Visible(id, user)
       THEN /\ scriptCollection' =
                  [scriptCollection EXCEPT ![id] = WriteBack(@, @, @)]
            /\ Reply("get", 200, {id}, {id})
       ELSE Reply("get", 404, {}, {}) /\ UNCHANGED scriptCollection
    /\ UNCHANGED <<request, userScripts>>
    /\ apiIdle

\* GET /api/scripts/:id/versions (scripts.js 157-178)
GetVersions(user, id) ==
    /\ IF Visible(id, user)
       THEN Reply("versions", 200, {}, {id})
       ELSE Reply("versions", 404, {}, {})
    /\ UNCHANGED <<scriptCollection, request, userScripts>>
    /\ apiIdle

\* GET /api/public/scripts/search, trending, top-rated and featured
\* (public.js 12-87, 90-110, 113-134, 137-159): published scripts,
\* select('-sourceCode -reviews').
SearchScripts ==
    /\ Reply("search", 200, {}, {id \in DocIds : Published(id)})
    /\ UNCHANGED <<scriptCollection, request, userScripts>>
    /\ apiIdle

\* GET /api/public/scripts/:id (public.js 163-188): as GetScript, for a
\* published script.
PublicGetScript(id) ==
    /\ IF Published(id)
       THEN /\ scriptCollection' =
                  [scriptCollection EXCEPT ![id] = WriteBack(@, @, @)]
            /\ Reply("publicGet", 200, {id}, {id})
       ELSE Reply("publicGet", 404, {}, {}) /\ UNCHANGED scriptCollection
    /\ UNCHANGED <<request, userScripts>>
    /\ apiIdle

\* POST /api/public/scripts/:id/download (public.js 191-214):
\* incrementDownloads (part_003 140-144) saves; sourceCode, metadata and
\* version are returned.
DownloadScript(id) ==
    /\ IF Published(id)
       THEN /\ scriptCollection' =
                  [scriptCollection EXCEPT ![id] = WriteBack(@, @, @)]
            /\ Reply("download", 200, {id}, {})
       ELSE Reply("download", 404, {}, {}) /\ UNCHANGED scriptCollection
    /\ UNCHANGED <<request, userScripts>>
    /\ apiIdle

\* GET /api/public/authors/:username (public.js 270-291): the scripts array
\* populated with match {isPublic, isActive} and select('-sourceCode').
AuthorProfile(author) ==
    /\ Reply("author", 200, {},
             {id \in Range(userScripts[author].scripts) : Published(id)})
    /\ UNCHANGED <<scriptCollection, request, userScripts>>
    /\ apiIdle

\* The bodies sent here: a source, with isPublic absent, true or false, and
\* another source that leaves isPublic alone.
ReadBodies ==
    {[sourceCode |-> SourceA, version |-> <<>>, isPublic |-> p] :
        p \in {Undefined, "true", "false"}}
    \cup {[sourceCode |-> SourceB, version |-> <<>>, isPublic |-> Undefined]}

ReadBy(user) ==
    \/ ListScripts(user)
    \/ \E id \in DocIds : GetScript(user, id)
    \/ \E id \in DocIds : GetVersions(user, id)

PublicRead ==
    \/ SearchScripts
    \/ \E id \in DocIds : PublicGetScript(id)
    \/ \E id \in DocIds : DownloadScript(id)
    \/ \E author \in Users : AuthorProfile(author)

NextRead ==
    \/ Tick
    \/ \E user \in Users, body \in ReadBodies : CreateScript(user, body)
    \/ \E user \in Users, id \in DocIds, body \in ReadBodies :
          UpdateScript(user, id, body)
    \/ \E user \in Users, id \in DocIds : DeleteScript(user, id)
    \/ \E user \in Users : ReadBy(user)
    \/ PublicRead

SpecRead == Init /\ [][NextRead]_vars

\* The documents a response carries the source of, current or earlier.
Disclosed == IF "source" \in DOMAIN last THEN last.source \cup last.history ELSE {}

\* The documents a caller may see the source of: their own, and the
\* published ones.
MayRead(user) == {id \in DocIds : Exists(id) /\
                     (scriptCollection[id].authorId = user
                        \/ scriptCollection[id].isPublic)}

\* C25: the source of a script that is private when the request is made is
\* returned to nobody but its author: every response of a reading route
\* carries sources only of the caller's own scripts and of published ones.
C25_PrivateSourceStaysPrivate ==
    [][/\ \A user \in Users : ReadBy(user) => Disclosed' \subseteq MayRead(user)
       /\ PublicRead => Disclosed' \subseteq MayRead(Anonymous)]_vars

\* A caller other than the author has asked for a private script that
\* exists and has a version history, and was answered 404.
C25_Witness ==
    /\ last.op \in {"get", "versions"}
    /\ last.status = 404
    /\ \E id \in DocIds :
          /\ Exists(id)
          /\ ~scriptCollection[id].isPublic
          /\ scriptCollection[id].versionHistory # <<>>

\* C28: reading a script changes nothing of it: GET /api/scripts/:id,
\* GET /api/public/scripts/:id and the download leave sourceCode, version,
\* versionHistory and updatedAt of every stored script as they were.
C28_ReadsChangeNothing ==
    [][(\/ \E user \in Users, id \in DocIds : GetScript(user, id)
        \/ \E id \in DocIds : PublicGetScript(id)
        \/ \E id \in DocIds : DownloadScript(id)) =>
           \A id \in DocIds :
              Exists(id) =>
                 /\ scriptCollection'[id].sourceCode = scriptCollection[id].sourceCode
                 /\ scriptCollection'[id].version = scriptCollection[id].version
                 /\ scriptCollection'[id].versionHistory =
                       scriptCollection[id].versionHistory
                 /\ scriptCollection'[id].updatedAt = scriptCollection[id].updatedAt]_vars

\* ------------------------------------------------------------------------
\* SpecClient: the sync client's StayAPI against the script routes
\* ------------------------------------------------------------------------
\* The remote collection has room for two documents here, so that a request
\* that creates a record beside an existing one can be seen.
RemoteIds == {"d1", "d2"}

\* What the client passes as scriptData or updates.
ClientData ==
    {[sourceCode |-> SourceA, version |-> <<>>, isPublic |-> Undefined],
     [sourceCode |-> SourceB, version |-> NextVersion, isPublic |-> Undefined],
     [sourceCode |-> NoText, version |-> NextVersion, isPublic |-> Undefined]}

\* part_000 375: data: {id: scriptId, ...updates}
WithId(scriptId, updates) ==
    [id |-> scriptId, sourceCode |-> updates.sourceCode,
     version |-> updates.version, isPublic |-> updates.isPublic]

\* scripts.js 53: the route takes the fields it names from req.body.
PostBody(data) ==
    [sourceCode |-> data.sourceCode, version |-> data.version,
     isPublic |-> data.isPublic]

\* createScript (part_000 365-370): POST /scripts
ClientCreateScript(user, scriptData) == CreateScript(user, PostBody(scriptData))

\* updateScript (part_000 372-377): POST /scripts
ClientUpdateScript(user, scriptId, updates) ==
    CreateScript(user, PostBody(WithId(scriptId, updates)))

\* deleteScript (part_000 379-383): DELETE /scripts/:id
ClientDeleteScript(user, scriptId) == DeleteScript(user, scriptId)

InitClient ==
    /\ StoreInit /\ ThreadsIdle /\ MatcherIdle /\ SyncIdle /\ PageIdle
    /\ HandlersIdle
    /\ scriptCollection = [id \in RemoteIds |-> Unused]

NextClient ==
    \/ \E user \in Users, scriptData \in ClientData :
          ClientCreateScript(user, scriptData)
    \/ \E user \in Users, scriptId \in RemoteIds, updates \in ClientData :
          ClientUpdateScript(user, scriptId, updates)
    \/ \E user \in Users, scriptId \in RemoteIds :
          ClientDeleteScript(user, scriptId)

SpecClient == InitClient /\ [][NextClient]_vars

RemoteRecords == {id \in DOMAIN scriptCollection : Exists(id)}

\* C23: updateScript(id, updates) on a record of the caller modifies that
\* record and leaves the number of remote records unchanged; only
\* createScript adds a record.
C23_UpdateKeepsRecordCount ==
    [][\A user \in Users, scriptId \in RemoteIds, updates \in ClientData :
          (findOne(scriptId, user)
             /\ ClientUpdateScript(user, scriptId, updates)) =>
              RemoteRecords' = RemoteRecords]_vars

\* ------------------------------------------------------------------------
\* SpecReviewConc: two handlers of POST /:id/review on the same collection
\* ------------------------------------------------------------------------
RECURSIVE SumRatings(_)
SumRatings(reviews) ==
    IF reviews = <<>> THEN 0
    ELSE Head(reviews).rating + SumRatings(Tail(reviews))

\* addReview (part_003 147-156), up to its save.
addReview(doc, userId, rating) ==
    LET pushed == Append(doc.reviews, [userId |-> userId, rating |-> rating])
    IN  [doc EXCEPT
            !.reviews = pushed,
            !.rating = [average |-> [sum |-> SumRatings(pushed),
                                     of |-> Len(pushed)],
                        count |-> Len(pushed)]]

\* scripts.js 199-201: script.reviews.find(r => r.userId == req.user._id)
existingReview(doc, user) ==
    \E i \in DOMAIN doc.reviews : doc.reviews[i].userId = user

\* The ratings sent: none (or zero), and two the route accepts.
Ratings == {0, 3, 5}

\* 183-206: the checks, findOne, the search for an earlier review, and
\* addReview up to the save it awaits.
ReviewFind(h, user, id, rating) ==
    /\ request[h].pc = "idle"
    /\ IF rating = 0 \/ rating < 1 \/ rating > 5
       THEN Respond("review", 400) /\ UNCHANGED request
       ELSE IF ~Published(id)
       THEN Respond("review", 404) /\ UNCHANGED request
       ELSE IF existingReview(scriptCollection[id], user)
       THEN Respond("review", 400) /\ UNCHANGED request
       ELSE /\ Waiting(h, "review206", id, [rating |-> rating],
                       scriptCollection[id],
                       addReview(scriptCollection[id], user, rating))
            /\ UNCHANGED last
    /\ UNCHANGED <<scriptCollection, userScripts>>
    /\ apiIdle

\* 206 resolves: the save inside addReview has reached the collection (or
\* found the document gone); 208-212 answer.
ReviewSaved(h) ==
    /\ request[h].pc = "review206"
    /\ LET r == request[h]
       IN  IF ~Exists(r.id)
           THEN Finish(h, "review", 500) /\ UNCHANGED scriptCollection
           ELSE /\ scriptCollection' =
                      [scriptCollection EXCEPT
                          ![r.id] = WriteBack(@, r.loaded, r.local)]
                /\ Finish(h, "review", 200)
    /\ UNCHANGED userScripts
    /\ apiIdle

\* Scripts are created public or private.
ReviewBodies ==
    {[sourceCode |-> SourceA, version |-> <<>>, isPublic |-> p] :
        p \in {"true", "false"}}

NextReviewConc ==
    \/ \E user \in Users, body \in ReviewBodies : CreateScript(user, body)
    \/ \E user \in Users, id \in DocIds : DeleteScript(user, id)
    \/ \E h \in Handlers, user \in Users, id \in DocIds, rating \in Ratings :
          ReviewFind(h, user, id, rating)
    \/ \E h \in Handlers : ReviewSaved(h)

SpecReviewConc == Init /\ [][NextReviewConc]_vars

\* C27: a script holds at most one review per user, also when requests
\* overlap.
C27_OneReviewPerUser ==
    \A id \in DocIds :
        Exists(id) =>
            \A i, j \in DOMAIN scriptCollection[id].reviews :
                scriptCollection[id].reviews[i].userId =
                    scriptCollection[id].reviews[j].userId => i = j

\* ------------------------------------------------------------------------
\* SpecOwnConc: POST / and DELETE /:id with the user's scripts array, two
\* handlers interleaved at their awaits
\* ------------------------------------------------------------------------
\* What a handler holds between awaits: the caller, the parameters, and
\* req.user as the auth middleware loaded it.
Holding(h, label, user, id, body, reqUser) ==
    request' = [request EXCEPT ![h] =
                  [pc |-> label, user |-> user, id |-> id, body |-> body,
                   reqUser |-> reqUser]]

OwnBody == [sourceCode |-> SourceA, version |-> <<>>, isPublic |-> Undefined]

\* auth (part_002 311-344): User.findById resolves, req.user is the
\* document as stored now; POST / then runs 53-72 up to script.save().
PostAuth(h, user, body) ==
    /\ request[h].pc = "idle"
    /\ IF ~TruthyText(body.sourceCode)
       THEN Respond("post", 400) /\ UNCHANGED request
       ELSE IF ~Validates(NewDocument(user, body))
       THEN Respond("post", 500) /\ UNCHANGED request
       ELSE /\ Holding(h, "post72", user, "none", body, userScripts[user])
            /\ UNCHANGED last
    /\ UNCHANGED <<scriptCollection, userScripts>>
    /\ apiIdle

\* 72 resolves: the script is in the collection; 75-76 push its _id on
\* req.user.scripts and await the save.
PostScriptSaved(h) ==
    /\ request[h].pc = "post72"
    /\ LET r == request[h]
       IN  \E id \in DOMAIN scriptCollection :
              /\ scriptCollection[id] = Unused
              /\ scriptCollection' =
                    [scriptCollection EXCEPT ![id] = NewDocument(r.user, r.body)]
              /\ Holding(h, "post76", r.user, id, r.body, r.reqUser)
    /\ UNCHANGED <<userScripts, last>>
    /\ apiIdle

\* 76 resolves: the $push has reached the User document; 78-82 answer.
PostUserSaved(h) ==
    /\ request[h].pc = "post76"
    /\ LET r == request[h]
       IN  userScripts' = [userScripts EXCEPT ![r.user] = PushScript(@, r.id)]
    /\ Finish(h, "post", 201)
    /\ UNCHANGED scriptCollection
    /\ apiIdle

\* auth resolves; DELETE /:id then issues findOneAndDelete (132-135).
DeleteAuth(h, user, id) ==
    /\ request[h].pc = "idle"
    /\ Holding(h, "delete132", user, id, OwnBody, userScripts[user])
    /\ UNCHANGED <<scriptCollection, userScripts, last>>
    /\ apiIdle

\* 132 resolves: the script is gone, or was not there (404); 142-145 assign
\* the filtered array and await the save.
DeleteFound(h) ==
    /\ request[h].pc = "delete132"
    /\ LET r == request[h]
       IN  IF findOne(r.id, r.user)
           THEN /\ scriptCollection' =
                      [scriptCollection EXCEPT ![r.id] = Deleted]
                /\ Holding(h, "delete145", r.user, r.id, r.body, r.reqUser)
                /\ UNCHANGED last
           ELSE Finish(h, "delete", 404) /\ UNCHANGED scriptCollection
    /\ UNCHANGED userScripts
    /\ apiIdle

\* 145 resolves.  A filtered array equal to the loaded one is no change and
\* nothing is written.  A changed array is $set whole under the version key
\* the handler loaded: if __v has moved since, the save fails (500).
DeleteUserSaved(h) ==
    /\ request[h].pc = "delete145"
    /\ LET r == request[h]
           local == PullScript(r.reqUser, r.id)
       IN  IF local = r.reqUser
           THEN Finish(h, "delete", 200) /\ UNCHANGED userScripts
           ELSE IF userScripts[r.user].v # r.reqUser.v
           THEN Finish(h, "delete", 500) /\ UNCHANGED userScripts
           ELSE /\ userScripts' = [userScripts EXCEPT ![r.user] = local]
                /\ Finish(h, "delete", 200)
    /\ UNCHANGED scriptCollection
    /\ apiIdle

NextOwnConc ==
    \/ \E h \in Handlers, user \in Users : PostAuth(h, user, OwnBody)
    \/ \E h \in Handlers : PostScriptSaved(h)
    \/ \E h \in Handlers : PostUserSaved(h)
    \/ \E h \in Handlers, user \in Users, id \in RemoteIds : DeleteAuth(h, user, id)
    \/ \E h \in Handlers : DeleteFound(h)
    \/ \E h \in Handlers : DeleteUserSaved(h)

SpecOwnConc == InitClient /\ [][NextOwnConc]_vars

\* The scripts that exist and have this author.
ScriptsOf(user) == {id \in DOMAIN scriptCollection : findOne(id, user)}

\* C26: when the create and delete requests made so far have completed,
\* each user's scripts array holds exactly the ids of the existing scripts
\* they are the author of.
C26_ListMatchesScripts ==
    (\A h \in Handlers : request[h].pc = "idle") =>
        \A user \in Users : Range(userScripts[user].scripts) = ScriptsOf(user)

\* ------------------------------------------------------------------------
\* SpecAuth: routes/auth.js over the User model, one request at a time
\* ------------------------------------------------------------------------
\* Of a User document the auth routes are modelled with email, username,
\* passwordHash and lastLogin.  An email is a sequence of characters, since
\* the schema lowercases it; a password is a text with a length; a value of
\* passwordHash is a sequence: the password's text as assigned, with the
\* bcrypt prefix in front once hashed.  The callers of the script routes
\* (Users) are taken as authenticated there and are not tied to these
\* accounts.
Emails ==
    {<<"a", "@", "x", ".", "i">>, <<"A", "@", "x", ".", "i">>,
     <<"b", "@", "x", ".", "i">>}
Usernames == {"ann", "bob"}
PasswordMinLen == 8
Passwords == {Text("first-secret", 12), Text("other-secret", 12),
              Text("short", 5)}

LowerChar(c) == IF c = "A" THEN "a" ELSE IF c = "B" THEN "b" ELSE c
toLowerCase(str) == [i \in DOMAIN str |-> LowerChar(str[i])]

\* bcrypt.hash(value, salt): the salt is not modelled, the result is
\* recognisable as a hash of just that value.
bcryptHash(value) == <<"$2a$10$">> \o value

\* A path excluded by select('-passwordHash') is undefined on the document.
NotSelected == <<>>

\* bcryptjs compare: rejects unless both arguments are strings.
bcryptCompare(candidate, hash) ==
    IF hash = NotSelected THEN "throws"
    ELSE IF hash = bcryptHash(<<candidate.text>>) THEN "true" ELSE "false"

\* A hook that hashes on every save.
hashEverySave(loadedHash, localHash) == bcryptHash(localHash)

\* pre('save') (User.js 80-90): hashes only a passwordHash that has been
\* assigned since the document was loaded or constructed.
hashOnSave(loadedHash, localHash) ==
    IF localHash = loadedHash THEN localHash ELSE bcryptHash(localHash)

Registered(a) == accounts[a] # Unused

\* new User({email, username, passwordHash: password}) (auth.js 31-35);
\* the schema lowercases the email (User.js 9).
NewUser(email, username, password) ==
    [email |-> toLowerCase(email), username |-> username,
     passwordHash |-> <<password.text>>, lastLogin |-> Absent]

\* save() of a loaded User document: after the hook, the assigned paths are
\* $set.
WriteAccount(stored, loaded, local) ==
    [stored EXCEPT
        !.username = IF local.username # loaded.username
                     THEN local.username ELSE @,
        !.passwordHash =
            IF hashOnSave(loaded.passwordHash, local.passwordHash)
                  # loaded.passwordHash
            THEN hashOnSave(loaded.passwordHash, local.passwordHash) ELSE @,
        !.lastLogin = IF local.lastLogin # loaded.lastLogin
                      THEN local.lastLogin ELSE @]

\* An insert that checks no index.
InsertsAnything(doc, self) == TRUE

\* The unique indexes on email and username (User.js 8, 16): a write that
\* would give two documents the same email or the same username fails.
IndexAllows(doc, self) ==
    \A a \in AccountIds \ {self} :
        Registered(a) =>
            /\ accounts[a].email # doc.email
            /\ accounts[a].username # doc.username

\* User.findOne({$or: [{email}, {username}]}) (auth.js 25).  Whether the
\* email of the query is lowercased like the stored ones depends on the
\* mongoose version; both are allowed for.
QueryCasts(email) == {email, toLowerCase(email)}
existingUser(email, username) ==
    \E a \in AccountIds :
        /\ Registered(a)
        /\ accounts[a].email = email \/ accounts[a].username = username

\* User.findOne({username, _id: {$ne: user._id}}) (auth.js 125-128)
usernameTaken(username, self) ==
    \E a \in AccountIds \ {self} :
        Registered(a) /\ accounts[a].username = username

\* req.user as the auth middleware loads it (part_002 323):
\* findById(decoded.id).select('-passwordHash')
reqUser(a) == [accounts[a] EXCEPT !.passwordHash = NotSelected]

authIdle ==
    UNCHANGED <<matchVars, storeVars, concVars, now, syncVars, pageVars,
                scriptCollection, userScripts>>

\* The insert of a new document, hashed by the hook, under the indexes.
InsertUser(doc, op) ==
    LET hashed == [doc EXCEPT !.passwordHash = hashOnSave(NotSelected, @)]
    IN  IF ~IndexAllows(hashed, "none")
        THEN Respond(op, 500) /\ UNCHANGED accounts
        ELSE /\ \E a \in AccountIds :
                   /\ ~Registered(a)
                   /\ accounts' = [accounts EXCEPT ![a] = hashed]
             /\ Respond(op, 201)

\* POST /register (auth.js 11-55)
Register(email, username, password) ==
    /\ IF password.len < PasswordMinLen
       THEN Respond("register", 400) /\ UNCHANGED accounts
       ELSE \E cast \in QueryCasts(email) :
               IF existingUser(cast, username)
               THEN Respond("register", 409) /\ UNCHANGED accounts
               ELSE InsertUser(NewUser(email, username, password), "register")
    /\ UNCHANGED request
    /\ authIdle

\* POST /login (auth.js 58-98)
Login(email, password) ==
    /\ LET found == {a \in AccountIds :
                        Registered(a) /\ accounts[a].email = toLowerCase(email)}
       IN  IF found = {}
           THEN Respond("login", 401) /\ UNCHANGED accounts
           ELSE \E a \in found :
                   LET user == accounts[a]
                       isMatch == bcryptCompare(password, user.passwordHash)
                   IN  IF isMatch = "throws"
                       THEN Respond("login", 500) /\ UNCHANGED accounts
                       ELSE IF isMatch = "false"
                       THEN Respond("login", 401) /\ UNCHANGED accounts
                       ELSE /\ accounts' =
                                 [accounts EXCEPT ![a] =
                                    WriteAccount(@, user,
                                       [user EXCEPT !.lastLogin = [time |-> now]])]
                            /\ Respond("login", 200)
    /\ UNCHANGED request
    /\ authIdle

\* PUT /me (auth.js 117-149) with a username in the body, by the holder of
\* a token of account a.
UpdateMe(a, username) ==
    /\ Registered(a)
    /\ LET user == reqUser(a)
           local == [user EXCEPT !.username = username]
       IN  IF usernameTaken(username, a)
           THEN Respond("me", 409) /\ UNCHANGED accounts
           ELSE IF ~IndexAllows(local, a)
           THEN Respond("me", 500) /\ UNCHANGED accounts
           ELSE /\ accounts' = [accounts EXCEPT ![a] = WriteAccount(@, user, local)]
                /\ Respond("me", 200)
    /\ UNCHANGED request
    /\ authIdle

\* PUT /change-password (auth.js 152-183), by the holder of a token of
\* account a.
ChangePassword(a, currentPassword, newPassword) ==
    /\ Registered(a)
    /\ LET user == reqUser(a)
           isMatch == bcryptCompare(currentPassword, user.passwordHash)
       IN  IF newPassword.len < PasswordMinLen
           THEN Respond("changePassword", 400) /\ UNCHANGED accounts
           ELSE IF isMatch = "throws"
           THEN Respond("changePassword", 500) /\ UNCHANGED accounts
           ELSE IF isMatch = "false"
           THEN Respond("changePassword", 401) /\ UNCHANGED accounts
           ELSE /\ accounts' =
                     [accounts EXCEPT ![a] =
                        WriteAccount(@, user,
                           [user EXCEPT !.passwordHash = <<newPassword.text>>])]
                /\ Respond("changePassword", 200)
    /\ UNCHANGED request
    /\ authIdle

NextAuth ==
    \/ \E email \in Emails, username \in Usernames, password \in Passwords :
          Register(email, username, password)
    \/ \E email \in Emails, password \in Passwords : Login(email, password)
    \/ \E a \in AccountIds, username \in Usernames : UpdateMe(a, username)
    \/ \E a \in AccountIds, currentPassword \in Passwords, newPassword \in Passwords :
          ChangePassword(a, currentPassword, newPassword)

SpecAuth == Init /\ [][NextAuth]_vars

\* C24: a change of password by an authenticated user who gives the
\* current password and a new one of at least 8 characters succeeds.
C24_ChangePasswordSucceeds ==
    [][\A a \in AccountIds, currentPassword \in Passwords, newPassword \in Passwords :
          (/\ Registered(a)
           /\ accounts[a].passwordHash = bcryptHash(<<currentPassword.text>>)
           /\ newPassword.len >= PasswordMinLen
           /\ ChangePassword(a, currentPassword, newPassword)) =>
              last'.status = 200]_vars

\* C30: login and PUT /me leave every passwordHash as it is stored; they
\* never hash it again.
C30_HashChangesOnlyByPassword ==
    [][(\/ \E email \in Emails, password \in Passwords : Login(email, password)
        \/ \E a \in AccountIds, username \in Usernames : UpdateMe(a, username)) =>
           \A a \in AccountIds :
              Registered(a) => accounts'[a].passwordHash = accounts[a].passwordHash]_vars

\* A login has succeeded and stamped lastLogin on an account that was
\* renamed through PUT /me; its passwordHash is still the hash of a password.
C30_Witness ==
    /\ last.op = "login"
    /\ last.status = 200
    /\ \E a \in AccountIds :
          /\ Registered(a)
          /\ accounts[a].lastLogin # Absent
          /\ accounts[a].username = "bob"
          /\ accounts[a].email = <<"a", "@", "x", ".", "i">>
          /\ \E p \in Passwords : accounts[a].passwordHash = bcryptHash(<<p.text>>)
          /\ \A b \in AccountIds \ {a} : ~Registered(b)

\* ------------------------------------------------------------------------
\* SpecAuthConc: POST /register and PUT /me, two handlers interleaved at
\* their awaits
\* ------------------------------------------------------------------------
Keeping(h, label, a, user, local) ==
    request' = [request EXCEPT ![h] =
                  [pc |-> label, a |-> a, user |-> user, local |-> local]]

\* 13-37: the checks, findOne, and the new document up to its save.
RegisterFind(h, email, username, password) ==
    /\ request[h].pc = "idle"
    /\ IF password.len < PasswordMinLen
       THEN Respond("register", 400) /\ UNCHANGED request
       ELSE \E cast \in QueryCasts(email) :
               IF existingUser(cast, username)
               THEN Respond("register", 409) /\ UNCHANGED request
               ELSE /\ Keeping(h, "register37", "none", Unused,
                               NewUser(email, username, password))
                    /\ UNCHANGED last
    /\ UNCHANGED accounts
    /\ authIdle

\* 37 resolves: the insert has been accepted or refused by the indexes.
RegisterSaved(h) ==
    /\ request[h].pc = "register37"
    /\ LET hashed == [request[h].local EXCEPT
                         !.passwordHash = hashOnSave(NotSelected, @)]
       IN  IF ~IndexAllows(hashed, "none")
           THEN Finish(h, "register", 500) /\ UNCHANGED accounts
           ELSE /\ \E a \in AccountIds :
                      /\ ~Registered(a)
                      /\ accounts' = [accounts EXCEPT ![a] = hashed]
                /\ Finish(h, "register", 201)
    /\ authIdle

\* auth resolves (part_002 326); PUT /me then issues the findOne of 125.
MeAuth(h, a, username) ==
    /\ request[h].pc = "idle"
    /\ Registered(a)
    /\ Keeping(h, "me125", a, reqUser(a),
               [reqUser(a) EXCEPT !.username = username])
    /\ UNCHANGED <<accounts, last>>
    /\ authIdle

\* 125 resolves: 409 if another user has the name, else 133-139 up to the
\* save.
MeFind(h) ==
    /\ request[h].pc = "me125"
    /\ LET r == request[h]
       IN  IF usernameTaken(r.local.username, r.a)
           THEN Finish(h, "me", 409)
           ELSE Keeping(h, "me139", r.a, r.user, r.local) /\ UNCHANGED last
    /\ UNCHANGED accounts
    /\ authIdle

\* 139 resolves: the update has been accepted or refused by the indexes.
MeSaved(h) ==
    /\ request[h].pc = "me139"
    /\ LET r == request[h]
           written == WriteAccount(accounts[r.a], r.user, r.local)
       IN  IF ~IndexAllows(written, r.a)
           THEN Finish(h, "me", 500) /\ UNCHANGED accounts
           ELSE /\ accounts' = [accounts EXCEPT ![r.a] = written]
                /\ Finish(h, "me", 200)
    /\ authIdle

\* One acceptable password and one too short.
OverlapPasswords == {Text("first-secret", 12), Text("short", 5)}

NextAuthConc ==
    \/ \E h \in Handlers, email \in Emails, username \in Usernames,
          password \in OverlapPasswords :
          RegisterFind(h, email, username, password)
    \/ \E h \in Handlers : RegisterSaved(h)
    \/ \E h \in Handlers, a \in AccountIds, username \in Usernames :
          MeAuth(h, a, username)
    \/ \E h \in Handlers : MeFind(h)
    \/ \E h \in Handlers : MeSaved(h)

SpecAuthConc == Init /\ [][NextAuthConc]_vars

\* C29: no two users ever share an email or a username, also when
\* registrations and PUT /me requests overlap; a request that is refused
\* stores nothing.
C29_EmailAndUsernameUnique ==
    /\ [](\A a, b \in AccountIds :
             (a # b /\ Registered(a) /\ Registered(b)) =>
                 /\ accounts[a].email # accounts[b].email
                 /\ accounts[a].username # accounts[b].username)
    /\ [][(last' # last /\ last'.status \notin {200, 201}) =>
             UNCHANGED accounts]_vars

\* A registration that had passed the check of line 25 was refused by an
\* index, because an overlapping request stored its email or username in
\* between; one account is stored and no handler is running.
C29_Witness ==
    /\ last = [op |-> "register", status |-> 500]
    /\ \A h \in Handlers : request[h].pc = "idle"
    /\ \E a \in AccountIds :
          /\ Registered(a)
          /\ \A b \in AccountIds \ {a} : ~Registered(b)

====
